---- MODULE Spec2Model ----
(***************************************************************************)
(* A model of bkushigian/tce.                                              *)
(*                                                                         *)
(*   tce.py                  run_tce: the two-level hash index over the    *)
(*                           compiled mutants, the baseline pass, the      *)
(*                           equivalent/redundant split, the three output  *)
(*                           files and the summary counts.                 *)
(*   compare_equiv_files.py  main: the two passes that compare two         *)
(*                           classification files.                         *)
(*                                                                         *)
(* The two programs share no state; each has its own specification (Spec   *)
(* for tce.py, CmpSpec for compare_equiv_files.py), and the variables of   *)
(* the other program stay at their idle values.                            *)
(***************************************************************************)
EXTENDS Integers, Sequences, FiniteSets, TLC

VARIABLES
    \* ---- tce.py ----
    mutants,        \* the COMPILED_MUTANTS tree as far as it has been walked:
                    \* mutant directory name -> (name -> bytes)
    program,        \* the COMPILED_PROGRAM tree as far as it has been read:
                    \* name -> bytes, or NoFile
    pc,             \* where run_tce is
    todo,           \* the entries of mids the loop of line 101 has not reached
    mid,            \* the mutant the loop of line 101 is at
    dirsLeft,       \* the directories os.walk(root) has not yielded yet
    i,              \* the enumerate() index of the running loop
    hashes,         \* name_tuple -> (contents_tuple -> set of mutant ids)
    nonsingleton_equivalence_classes,   \* list of references to sets of hashes
    keysLeft,       \* the keys of hashes the loop of line 132 has not reached
    adds,           \* number of eq_class.add calls made so far (lines 121, 136)
    exc,            \* the exception that ended the run, or NoExc
    files,          \* the three output files
    summary,        \* the three counts printed at the end
    \* ---- compare_equiv_files.py ----
    equivs1, equivs2,   \* the parsed lines of file1 and file2
    cpc,                \* where main is
    visited,            \* the visited set of the running pass
    keysTodo,           \* the keys of the primary mid_map the loop has not reached
    out1, out2          \* what the two passes printed

tceVars == <<mutants, program, pc, todo, mid, dirsLeft, i, hashes,
             nonsingleton_equivalence_classes, keysLeft, adds, exc, files, summary>>
cmpVars == <<equivs1, equivs2, cpc, visited, keysTodo, out1, out2>>
vars == <<tceVars, cmpVars>>

(***************************************************************************)
(* Bounds of the model.                                                    *)
(***************************************************************************)
MaxMutants == 2     \* mutant directories under COMPILED_MUTANTS
MaxFiles == 2       \* classfiles in one mutant's tree
MaxLines == 2       \* classes in a classification file given to the comparator
MaxLineLen == 3     \* tokens on one line of such a file

(***************************************************************************)
(* The file system.  A name is <<relpath, filename>>; os.path.join of the  *)
(* two is one-to-one on names without a separator.                         *)
(***************************************************************************)
MutantNames == {"0", "1", "2"}
Dirs == {"a", "b"}
FileNames == <<"F", "G">>           \* in lexicographic order
Bytes == {"x", "y"}
NoFile == "ENOENT"
NoMid == "none"
NoExc == "none"
NotWritten == <<"not written">>

BaselineId == "0"

join(relpath, filename) == <<relpath, filename>>

Range(s) == {s[n] : n \in DOMAIN s}

Rank(f) == CHOOSE n \in 1..Len(FileNames) : FileNames[n] = f

\* the classfiles a tree may hold: a/F, a/G and b/F
AllNames == {join("a", "F"), join("a", "G"), join("b", "F")}

NamesIn(d) == {name \in AllNames : name[1] = d}

EmptyTree == [name \in {} |-> NoFile]

\* f, and g where f is not defined
Extend(f, g) == [x \in DOMAIN f \cup DOMAIN g |-> IF x \in DOMAIN f THEN f[x] ELSE g[x]]

\* what directory d of a mutant may turn out to hold, the rest of the tree being known
DirContents(tree, d) ==
    UNION {[S -> Bytes] : S \in {T \in SUBSET NamesIn(d) :
                                      Cardinality(DOMAIN tree) + Cardinality(T) <= MaxFiles}}

\* the filenames os.walk yields for directory d of a tree
FilesIn(tree, d) == {FileNames[n] : n \in {k \in 1..Len(FileNames) : join(d, FileNames[k]) \in DOMAIN tree}}

\* os.walk gives the filenames of a directory in any order
Listings(S) == {l \in [1..Cardinality(S) -> S] : \A a, b \in 1..Cardinality(S) : l[a] = l[b] => a = b}

sorted(filenames) == SortSeq(filenames, LAMBDA f, g : Rank(f) < Rank(g))

\* line 109 without sorted(): the names in the order os.walk listed them
NameTuple_Unsorted(relpath, filenames) == [n \in 1..Len(filenames) |-> join(relpath, filenames[n])]

\* line 109
NameTuple(relpath, filenames) == [n \in 1..Len(filenames) |-> join(relpath, sorted(filenames)[n])]

\* lines 80-87 with the failure of open() swallowed: a file that is not there
\* reads as no bytes
read_name_tuple_Lenient(name_tuple, root) ==
    [raised |-> FALSE,
     contents_tuple |-> [n \in 1..Len(name_tuple) |->
                           IF name_tuple[n] \in DOMAIN root THEN root[name_tuple[n]] ELSE NoFile]]

\* lines 80-87; open() raises for a file that is not there
read_name_tuple_from_root(name_tuple, root) ==
    IF \E n \in 1..Len(name_tuple) : name_tuple[n] \notin DOMAIN root \/ root[name_tuple[n]] = NoFile
    THEN [raised |-> TRUE, contents_tuple |-> <<>>]
    ELSE [raised |-> FALSE, contents_tuple |-> [n \in 1..Len(name_tuple) |-> root[name_tuple[n]]]]

\* lines 169-179: what a call of progress does
progress(done, total, increment) ==
    IF done % increment # 0 THEN "returned early"
    ELSE IF total = 0 THEN "ZeroDivisionError"
    ELSE "printed"

(***************************************************************************)
(* The index.                                                              *)
(***************************************************************************)
\* d.setdefault(key, default) as the value it returns
setdefault(d, key, default) == IF key \in DOMAIN d THEN d[key] ELSE default

EmptyDict == [x \in {} |-> {}]

\* lines 112, 118, 121 (and 135, 136): hashes after id is added to the class of
\* contents_tuple under name_tuple
Insert(h, name_tuple, contents_tuple, id) ==
    LET d == setdefault(h, name_tuple, EmptyDict)
        eq_class == setdefault(d, contents_tuple, {})
        d2 == [c \in DOMAIN d \cup {contents_tuple} |->
                 IF c = contents_tuple THEN eq_class \cup {id} ELSE d[c]]
    IN [k \in DOMAIN h \cup {name_tuple} |-> IF k = name_tuple THEN d2 ELSE h[k]]

\* lines 122-123 with >= for ==
Promote_AtLeastTwo(list, h, name_tuple, contents_tuple) ==
    IF Cardinality(h[name_tuple][contents_tuple]) >= 2
    THEN Append(list, <<name_tuple, contents_tuple>>)
    ELSE list

\* lines 122-123 (and 137-138): the list after the insertion
Promote(list, h, name_tuple, contents_tuple) ==
    IF Cardinality(h[name_tuple][contents_tuple]) = 2
    THEN Append(list, <<name_tuple, contents_tuple>>)
    ELSE list

\* the set a reference of the list points to
ClassOf(h, ref) == h[ref[1]][ref[2]]

\* line 142
EquivalentMutants(list, h) == SelectSeq(list, LAMBDA x : BaselineId \in ClassOf(h, x))
\* line 143 with the test of line 142
RedundantMutants_SameTest(list, h) == SelectSeq(list, LAMBDA x : BaselineId \in ClassOf(h, x))

\* line 143
RedundantMutants(list, h) == SelectSeq(list, LAMBDA x : BaselineId \notin ClassOf(h, x))

RECURSIVE SumLen(_, _)
SumLen(list, h) == IF list = <<>> THEN 0 ELSE Cardinality(ClassOf(h, Head(list))) + SumLen(Tail(list), h)

\* lines 162-164
Count(list, h) == SumLen(list, h) - Len(list)

\* lines 145-158: one line per class, the members of the class joined by spaces
FileOf(list, h) == [n \in 1..Len(list) |-> ClassOf(h, list[n])]

(***************************************************************************)
(* run_tce                                                                 *)
(***************************************************************************)
num_mutants == Cardinality(DOMAIN mutants)

CmpIdle ==
    /\ equivs1 = <<>> /\ equivs2 = <<>> /\ cpc = "idle" /\ visited = {}
    /\ keysTodo = <<>> /\ out1 = <<>> /\ out2 = <<>>

Init ==
    /\ \E mids \in {N \in SUBSET MutantNames : Cardinality(N) <= MaxMutants} :
         mutants = [m \in mids |-> EmptyTree]
    /\ program = EmptyTree
    /\ pc = "mutants"
    /\ todo = DOMAIN mutants
    /\ mid = NoMid
    /\ dirsLeft = {}
    /\ i = 0
    /\ hashes = EmptyDict
    /\ nonsingleton_equivalence_classes = <<>>
    /\ keysLeft = {}
    /\ adds = 0
    /\ exc = NoExc
    /\ files = [all |-> NotWritten, equivalent |-> NotWritten, redundant |-> NotWritten]
    /\ summary = <<>>
    /\ CmpIdle

\* line 101: the loop takes the next entry of mids (os.walk lists them in any order)
BeginMutant ==
    /\ pc = "mutants" /\ mid = NoMid /\ todo # {}
    /\ \E m \in todo :
         /\ mid' = m
         /\ todo' = todo \ {m}
    /\ dirsLeft' = Dirs
    /\ UNCHANGED <<mutants, program, pc, i, hashes, nonsingleton_equivalence_classes,
                   keysLeft, adds, exc, files, summary, cmpVars>>

\* lines 103-123: one directory of the walk of the current mutant.  What the
\* directory holds is found here; a file that is listed can still fail to open.
WalkDir ==
    /\ pc = "mutants" /\ mid # NoMid
    /\ \E dirpath \in dirsLeft :
       \E found \in DirContents(mutants[mid], dirpath) :
         LET root == Extend(mutants[mid], found)
             filenames == FilesIn(root, dirpath)
         IN
         /\ dirsLeft' = dirsLeft \ {dirpath}
         /\ IF filenames = {}
            THEN UNCHANGED <<mutants, pc, hashes, nonsingleton_equivalence_classes, adds, exc>>
            ELSE \E listing \in Listings(filenames), readable \in BOOLEAN :
                   LET name_tuple == NameTuple(dirpath, listing)
                       r == read_name_tuple_from_root(name_tuple, root)
                       h == Insert(hashes, name_tuple, r.contents_tuple, mid)
                   IN IF r.raised \/ ~readable
                      THEN /\ pc' = "raised"
                           /\ exc' = "IOError"
                           /\ UNCHANGED <<mutants, hashes, nonsingleton_equivalence_classes, adds>>
                      ELSE /\ mutants' = [mutants EXCEPT ![mid] = root]
                           /\ hashes' = h
                           /\ nonsingleton_equivalence_classes' =
                                 Promote(nonsingleton_equivalence_classes, h, name_tuple, r.contents_tuple)
                           /\ adds' = adds + 1
                           /\ UNCHANGED <<pc, exc>>
    /\ UNCHANGED <<program, todo, mid, i, keysLeft, files, summary, cmpVars>>

\* line 124: the walk of the current mutant is over
EndMutant ==
    /\ pc = "mutants" /\ mid # NoMid /\ dirsLeft = {}
    /\ IF progress(i + 1, num_mutants, 5) = "ZeroDivisionError"
       THEN pc' = "raised" /\ exc' = "ZeroDivisionError"
       ELSE UNCHANGED <<pc, exc>>
    /\ i' = i + 1
    /\ mid' = NoMid
    /\ UNCHANGED <<mutants, program, todo, dirsLeft, hashes, nonsingleton_equivalence_classes,
                   keysLeft, adds, files, summary, cmpVars>>

\* lines 126-130: after the last mutant
EndMutantLoop ==
    /\ pc = "mutants" /\ mid = NoMid /\ todo = {}
    /\ IF progress(num_mutants, num_mutants, 1) = "ZeroDivisionError"
       THEN /\ pc' = "raised" /\ exc' = "ZeroDivisionError"
            /\ UNCHANGED <<i, keysLeft>>
       ELSE /\ pc' = "baseline"
            /\ i' = 0
            /\ keysLeft' = DOMAIN hashes
            /\ UNCHANGED exc
    /\ UNCHANGED <<mutants, program, todo, mid, dirsLeft, hashes,
                   nonsingleton_equivalence_classes, adds, files, summary, cmpVars>>

\* lines 132-139: one key of hashes
BaselineStep ==
    /\ pc = "baseline"
    /\ \E name_tuple \in keysLeft :
       \E found \in [Range(name_tuple) \ DOMAIN program -> Bytes \cup {NoFile}] :
         LET root == Extend(program, found)
             r == read_name_tuple_from_root(name_tuple, root)
             h == Insert(hashes, name_tuple, r.contents_tuple, BaselineId)
         IN
         /\ program' = root
         /\ IF r.raised
            THEN /\ pc' = "raised"
                 /\ exc' = "IOError"
                 /\ UNCHANGED <<hashes, nonsingleton_equivalence_classes, adds, i, keysLeft>>
            ELSE /\ hashes' = h
                 /\ nonsingleton_equivalence_classes' =
                       Promote(nonsingleton_equivalence_classes, h, name_tuple, r.contents_tuple)
                 /\ adds' = adds + 1
                 /\ keysLeft' = keysLeft \ {name_tuple}
                 /\ IF progress(i + 1, Cardinality(DOMAIN hashes), 5) = "ZeroDivisionError"
                    THEN pc' = "raised" /\ exc' = "ZeroDivisionError"
                    ELSE UNCHANGED <<pc, exc>>
                 /\ i' = i + 1
    /\ UNCHANGED <<mutants, todo, mid, dirsLeft, files, summary, cmpVars>>

\* lines 140-167: after the last key; the split, the three files, the summary
Finish ==
    /\ pc = "baseline" /\ keysLeft = {}
    /\ IF progress(Cardinality(DOMAIN hashes), Cardinality(DOMAIN hashes), 1) = "ZeroDivisionError"
       THEN /\ pc' = "raised" /\ exc' = "ZeroDivisionError"
            /\ UNCHANGED <<files, summary>>
       ELSE LET equivalent_mutants == EquivalentMutants(nonsingleton_equivalence_classes, hashes)
                redundant_mutants == RedundantMutants(nonsingleton_equivalence_classes, hashes)
            IN /\ files' = [all |-> FileOf(nonsingleton_equivalence_classes, hashes),
                            equivalent |-> FileOf(equivalent_mutants, hashes),
                            redundant |-> FileOf(redundant_mutants, hashes)]
               /\ summary' = [num_total_equivalences |-> Count(nonsingleton_equivalence_classes, hashes),
                              num_equiv_mutants |-> Count(equivalent_mutants, hashes),
                              num_redundant_mutants |-> Count(redundant_mutants, hashes)]
               /\ pc' = "done"
               /\ UNCHANGED exc
    /\ UNCHANGED <<mutants, program, todo, mid, dirsLeft, i, hashes,
                   nonsingleton_equivalence_classes, keysLeft, adds, cmpVars>>

Next == BeginMutant \/ WalkDir \/ EndMutant \/ EndMutantLoop \/ BaselineStep \/ Finish

Spec == Init /\ [][Next]_vars

(***************************************************************************)
(* compare_equiv_files.py                                                  *)
(***************************************************************************)
Tokens == <<"0", "1", "2">>

TokenSet == Range(Tokens)

TokenRank(t) == CHOOSE n \in 1..Len(Tokens) : Tokens[n] = t

\* a line after split(): its tokens, here in ascending order and without repeats
Lines == {l \in UNION {[1..n -> TokenSet] : n \in 1..MaxLineLen} :
            \A a, b \in 1..Len(l) : a < b => TokenRank(l[a]) < TokenRank(l[b])}

\* lines 29-30: the non-empty lines of a file
EquivFiles == UNION {[1..n -> Lines] : n \in 0..MaxLines}

\* lines 37-40 (41-44): the dict after the loop over equivs; a later line
\* that holds elem replaces the class an earlier line gave it
RECURSIVE MidMap(_)
MidMap(equivs) ==
    IF equivs = <<>> THEN [t \in {} |-> {}]
    ELSE LET before == MidMap(SubSeq(equivs, 1, Len(equivs) - 1))
             equiv_class == equivs[Len(equivs)]
         IN [elem \in DOMAIN before \cup Range(equiv_class) |->
               IF elem \in Range(equiv_class) THEN Range(equiv_class) ELSE before[elem]]

\* the tokens of a sequence in the order of their first occurrence
RECURSIVE FirstOccurrences(_)
FirstOccurrences(s) ==
    IF s = <<>> THEN <<>>
    ELSE LET before == FirstOccurrences(SubSeq(s, 1, Len(s) - 1))
         IN IF s[Len(s)] \in Range(before) THEN before ELSE Append(before, s[Len(s)])

RECURSIVE Flatten(_)
Flatten(equivs) == IF equivs = <<>> THEN <<>> ELSE Head(equivs) \o Flatten(Tail(equivs))

\* lines 52, 79: a dict is iterated in the order its keys were first inserted
KeyOrder(equivs) == FirstOccurrences(Flatten(equivs))

\* lines 59-68 (86-95): the nested loop over the members of a class, taken in
\* the given order; classes is the list built, last the class bound by the
\* last assignment of line 66 (93), none when the line never ran
RECURSIVE Collect(_, _, _, _, _)
Collect(order, other_map, nested_visited, classes, last) ==
    IF order = <<>> THEN [classes |-> classes, last |-> last]
    ELSE LET m == Head(order) IN
         IF m \in nested_visited \/ m \notin DOMAIN other_map
         THEN Collect(Tail(order), other_map, nested_visited, classes, last)
         ELSE Collect(Tail(order), other_map, nested_visited \cup other_map[m],
                      Append(classes, other_map[m]), <<other_map[m]>>)

\* lines 70-74: what pass 1 prints for class ec1
Report1(ec1, found) ==
    IF Len(found.classes) # 1
    THEN <<[kind |-> "structural", members |-> ec1, others |-> <<>>]>>
    ELSE IF ~(ec1 \subseteq found.classes[1])
         THEN <<[kind |-> "mismatch", members |-> ec1, others |-> found.classes]>>
         ELSE <<>>

\* lines 97-101: what pass 2 prints; line 93 has rebound ec2 to the class it
\* found last in file 1
Report2(ec2_at_55, found) ==
    LET ec2 == IF found.last = <<>> THEN ec2_at_55 ELSE found.last[1] IN
    IF Len(found.classes) # 1
    THEN <<[kind |-> "structural", members |-> ec2, others |-> <<>>]>>
    ELSE IF ~(ec2 \subseteq found.classes[1])
         THEN <<[kind |-> "mismatch", members |-> ec2, others |-> found.classes]>>
         ELSE <<>>

TceIdle ==
    /\ mutants = <<>> /\ program = <<>> /\ pc = "idle" /\ todo = {} /\ mid = NoMid
    /\ dirsLeft = {} /\ i = 0 /\ hashes = <<>> /\ nonsingleton_equivalence_classes = <<>>
    /\ keysLeft = {} /\ adds = 0 /\ exc = NoExc /\ files = <<>> /\ summary = <<>>

\* lines 25-51
CmpInit ==
    /\ equivs1 \in EquivFiles
    /\ equivs2 \in EquivFiles
    /\ cpc = "file1"
    /\ visited = {"0"}
    /\ keysTodo = KeyOrder(equivs1)
    /\ out1 = <<>>
    /\ out2 = <<>>
    /\ TceIdle

\* lines 52-74: one round of the loop over mid_map_1
VisitFile1 ==
    /\ cpc = "file1" /\ keysTodo # <<>>
    /\ LET mid_map_1 == MidMap(equivs1)
           mid_map_2 == MidMap(equivs2)
           m1 == Head(keysTodo)
           ec1 == mid_map_1[m1]
       IN IF m1 \in visited
          THEN UNCHANGED <<visited, out1>>
          ELSE /\ visited' = visited \cup ec1
               /\ \E order \in Listings(ec1) :
                    out1' = out1 \o Report1(ec1, Collect(order, mid_map_2, {}, <<>>, <<>>))
    /\ keysTodo' = Tail(keysTodo)
    /\ UNCHANGED <<equivs1, equivs2, cpc, out2, tceVars>>

\* lines 76-78: pass 1 is over, pass 2 starts
StartFile2 ==
    /\ cpc = "file1" /\ keysTodo = <<>>
    /\ cpc' = "file2"
    /\ visited' = {"0"}
    /\ keysTodo' = KeyOrder(equivs2)
    /\ UNCHANGED <<equivs1, equivs2, out1, out2, tceVars>>

\* lines 79-101: one round of the loop over mid_map_2
VisitFile2 ==
    /\ cpc = "file2" /\ keysTodo # <<>>
    /\ LET mid_map_1 == MidMap(equivs1)
           mid_map_2 == MidMap(equivs2)
           m2 == Head(keysTodo)
           ec2 == mid_map_2[m2]
       IN IF m2 \in visited
          THEN UNCHANGED <<visited, out2>>
          ELSE /\ visited' = visited \cup ec2
               /\ \E order \in Listings(ec2) :
                    out2' = out2 \o Report2(ec2, Collect(order, mid_map_1, {}, <<>>, <<>>))
    /\ keysTodo' = Tail(keysTodo)
    /\ UNCHANGED <<equivs1, equivs2, cpc, out1, tceVars>>

\* pass 2 is over
EndFile2 ==
    /\ cpc = "file2" /\ keysTodo = <<>>
    /\ cpc' = "done"
    /\ UNCHANGED <<equivs1, equivs2, visited, keysTodo, out1, out2, tceVars>>

CmpNext == VisitFile1 \/ StartFile2 \/ VisitFile2 \/ EndFile2

CmpSpec == CmpInit /\ [][CmpNext]_vars

(***************************************************************************)
(* What the trees say, read off the trees alone                            *)
(***************************************************************************)
mids == DOMAIN mutants

\* the names of directory d of a tree, in ascending order of filename
AscendingNames(tree, d) ==
    SelectSeq([n \in 1..Len(FileNames) |-> join(d, FileNames[n])], LAMBDA name : name \in DOMAIN tree)

\* the ArtifactSetKeys of a tree: one per directory that holds files
KeysOfTree(tree) == {AscendingNames(tree, d) : d \in Dirs} \ {<<>>}

ContentKey(tree, key) == [n \in 1..Len(key) |-> tree[key[n]]]

\* the baseline artifacts of key have been read, and all were there
BaselineRead(key) == \A n \in 1..Len(key) : key[n] \in DOMAIN program /\ program[key[n]] # NoFile

\* the baseline pass has inserted "0" under key
BaselineInserted(key) == key \in DOMAIN hashes /\ key \notin keysLeft /\ BaselineRead(key)

\* the mutants that hold key with the contents c, and the baseline if it does
MembersByContent(key, c) ==
    {m \in mids : key \in KeysOfTree(mutants[m]) /\ ContentKey(mutants[m], key) = c}
    \cup (IF BaselineRead(key) /\ ContentKey(program, key) = c THEN {BaselineId} ELSE {})

AllKeys == UNION {KeysOfTree(mutants[m]) : m \in mids}

Refs(h) == UNION {{<<key, c>> : c \in DOMAIN h[key]} : key \in DOMAIN h}

AllNotWritten == files.all = NotWritten /\ files.equivalent = NotWritten /\ files.redundant = NotWritten

(***************************************************************************)
(* C4.  Partition invariant of the two-level index: under every key the    *)
(* classes are pairwise disjoint, every id processed at the key (a mutant  *)
(* walked there, the baseline once inserted) is in exactly one class, and  *)
(* two of them share a class exactly when their content tuples are equal.  *)
(***************************************************************************)
\* who has been inserted under key: <<id, content tuple>>
Participants(key) ==
    {<<m, ContentKey(mutants[m], key)>> : m \in {n \in mids : key \in KeysOfTree(mutants[n])}}
    \cup (IF BaselineInserted(key) THEN {<<BaselineId, ContentKey(program, key)>>} ELSE {})

ClassesHolding(key, id) == {c \in DOMAIN hashes[key] : id \in hashes[key][c]}

PartitionInvariant ==
    \A key \in DOMAIN hashes :
        /\ \A c1, c2 \in DOMAIN hashes[key] : c1 # c2 => hashes[key][c1] \cap hashes[key][c2] = {}
        /\ \A p \in Participants(key) : Cardinality(ClassesHolding(key, p[1])) = 1
        /\ \A p, q \in Participants(key) :
              (ClassesHolding(key, p[1]) \cap ClassesHolding(key, q[1]) # {}) <=> (p[2] = q[2])

\* the same, for trees in which no mutant directory is named "0"
PartitionInvariantReserved == BaselineId \notin mids => PartitionInvariant

(***************************************************************************)
(* C5.  Equivalent/redundant split: every class written to                 *)
(* equivalent-mutants holds "0", no class written to redundant-mutants     *)
(* does, the two outputs share no class, and together they are exactly the *)
(* classes written to all-equivalences, which are the classes of the index *)
(* with two members or more.                                               *)
(***************************************************************************)
SplitIsExact ==
    pc = "done" =>
        /\ \A n \in 1..Len(files.equivalent) : BaselineId \in files.equivalent[n]
        /\ \A n \in 1..Len(files.redundant) : BaselineId \notin files.redundant[n]
        /\ Range(files.equivalent) \cap Range(files.redundant) = {}
        /\ Range(files.equivalent) \cup Range(files.redundant) = Range(files.all)
        /\ Len(files.equivalent) + Len(files.redundant) = Len(files.all)
        /\ Range(files.all) = {ClassOf(hashes, ref) : ref \in {r \in Refs(hashes) : Cardinality(ClassOf(hashes, r)) >= 2}}

SplitWitness ==
    /\ pc = "done"
    /\ Len(files.equivalent) >= 1
    /\ Len(files.redundant) >= 1

(***************************************************************************)
(* C6.  A mutant is reported as equivalent (it is on a line of             *)
(* equivalent-mutants) if and only if each of its classfiles, in every     *)
(* directory of its tree, is byte-identical to the classfile of the        *)
(* original program.  Stated for mutants that hold a classfile and are not *)
(* named "0".                                                              *)
(***************************************************************************)
ReportedEquivalent(m) == \E n \in 1..Len(files.equivalent) : m \in files.equivalent[n]

IdenticalToOriginal(m) ==
    \A name \in DOMAIN mutants[m] : name \in DOMAIN program /\ program[name] = mutants[m][name]

EquivalentIffIdentical ==
    pc = "done" =>
        \A m \in mids \ {BaselineId} :
            DOMAIN mutants[m] # {} => (ReportedEquivalent(m) <=> IdenticalToOriginal(m))

(***************************************************************************)
(* C7.  Empty inputs are not an error: with no mutant directory, or with   *)
(* no classfile in any mutant, the run raises nothing and ends with an     *)
(* empty classification.                                                   *)
(***************************************************************************)
\* the mutant loop is over and found no classfile
EmptyInput == todo = {} /\ mid = NoMid /\ \A m \in mids : DOMAIN mutants[m] = {}

EmptyInputIsNoError ==
    EmptyInput =>
        /\ pc # "raised"
        /\ pc = "done" => /\ files.all = <<>> /\ files.equivalent = <<>> /\ files.redundant = <<>>
                          /\ summary.num_total_equivalences = 0
                          /\ summary.num_equiv_mutants = 0
                          /\ summary.num_redundant_mutants = 0

(***************************************************************************)
(* C8.  A missing artifact is fatal and leaves no output: once a read of   *)
(* an artifact of a discovered key has failed the run has ended with the   *)
(* I/O error, a run that ends normally has read every key of the index     *)
(* from the baseline and put "0" in the class of what it read, and a run   *)
(* that ended with an exception has written none of the three files.       *)
(***************************************************************************)
MissingBaselineArtifact ==
    \E key \in DOMAIN hashes : \E n \in 1..Len(key) : key[n] \in DOMAIN program /\ program[key[n]] = NoFile

MissingArtifactIsFatal ==
    /\ MissingBaselineArtifact => pc = "raised" /\ exc = "IOError"
    /\ pc = "raised" => AllNotWritten /\ summary = <<>>
    /\ pc = "done" =>
          \A key \in DOMAIN hashes :
              /\ BaselineRead(key)
              /\ ContentKey(program, key) \in DOMAIN hashes[key]
              /\ BaselineId \in hashes[key][ContentKey(program, key)]

MissingArtifactWitness ==
    /\ pc = "raised"
    /\ MissingBaselineArtifact
    /\ Len(nonsingleton_equivalence_classes) >= 1
    /\ \E key \in DOMAIN hashes : BaselineInserted(key)

(***************************************************************************)
(* C9.  Order independence: what a run that ends normally writes and       *)
(* counts is a function of the trees alone, whatever the order of the      *)
(* mutants, of the directories of a mutant, of the filenames of a          *)
(* directory and of the keys in the baseline pass.  The classes are those  *)
(* the trees give; the order of the lines is free.                         *)
(***************************************************************************)
\* a class is listed twice when a mutant named "0" already is one of its two
\* members as the baseline pass reaches it
TimesListed(index, ref) ==
    IF /\ BaselineId \in mids
       /\ ref[1] \in KeysOfTree(mutants[BaselineId])
       /\ ContentKey(mutants[BaselineId], ref[1]) = ref[2]
       /\ ContentKey(program, ref[1]) = ref[2]
       /\ Cardinality(ClassOf(index, ref)) = 2
    THEN 2 ELSE 1

Duplicates(index, ref) == TimesListed(index, ref) * (Cardinality(ClassOf(index, ref)) - 1)

RECURSIVE SumDuplicates(_, _)
SumDuplicates(index, S) ==
    IF S = {} THEN 0
    ELSE LET ref == CHOOSE r \in S : TRUE IN Duplicates(index, ref) + SumDuplicates(index, S \ {ref})

\* the index the trees give
IndexOfTrees ==
    [key \in AllKeys |->
        LET contents == {ContentKey(mutants[m], key) : m \in {n \in mids : key \in KeysOfTree(mutants[n])}}
                        \cup (IF BaselineRead(key) THEN {ContentKey(program, key)} ELSE {})
        IN [c \in contents |-> MembersByContent(key, c)]]

ResultIsFunctionOfTrees ==
    pc = "done" =>
        LET index == IndexOfTrees
            interesting == {ref \in Refs(index) : Cardinality(ClassOf(index, ref)) >= 2}
            equivalent == {ref \in interesting : BaselineId \in ClassOf(index, ref)}
            redundant == interesting \ equivalent
        IN /\ hashes = index
           /\ Range(nonsingleton_equivalence_classes) = interesting
           /\ Range(files.all) = {ClassOf(index, ref) : ref \in interesting}
           /\ Range(files.equivalent) = {ClassOf(index, ref) : ref \in equivalent}
           /\ Range(files.redundant) = {ClassOf(index, ref) : ref \in redundant}
           /\ summary.num_total_equivalences = SumDuplicates(index, interesting)
           /\ summary.num_equiv_mutants = SumDuplicates(index, equivalent)
           /\ summary.num_redundant_mutants = SumDuplicates(index, redundant)

OrderWitness ==
    /\ pc = "done"
    /\ Cardinality(mids) >= 2
    /\ \E key \in DOMAIN hashes : Len(key) = 2
    /\ Cardinality(DOMAIN hashes) >= 2
    /\ Len(files.all) >= 1

(***************************************************************************)
(* C10.  Promotion at the 1 -> 2 threshold, for mutant directories none of *)
(* which is named "0": every add makes its class one larger, a class is    *)
(* appended to the list exactly by the add that takes it from one member   *)
(* to two, and so the list holds every class with two members or more      *)
(* once, and no other.                                                     *)
(***************************************************************************)
Size(h, ref) == IF ref \in Refs(h) THEN Cardinality(ClassOf(h, ref)) ELSE 0

RECURSIVE SumSizes(_, _)
SumSizes(h, S) ==
    IF S = {} THEN 0 ELSE LET ref == CHOOSE r \in S : TRUE IN Size(h, ref) + SumSizes(h, S \ {ref})

NoRepeats(list) == \A a, b \in 1..Len(list) : list[a] = list[b] => a = b

PromotionState ==
    BaselineId \notin mids =>
        /\ SumSizes(hashes, Refs(hashes)) = adds
        /\ NoRepeats(nonsingleton_equivalence_classes)
        /\ Range(nonsingleton_equivalence_classes) = {ref \in Refs(hashes) : Size(hashes, ref) >= 2}

PromotionStep ==
    BaselineId \notin mids =>
        LET list == nonsingleton_equivalence_classes
            grown == {ref \in Refs(hashes') : Size(hashes', ref) # Size(hashes, ref)}
        IN /\ adds' \in {adds, adds + 1}
           /\ adds' = adds + 1 =>
                \E ref \in Refs(hashes') :
                    /\ grown = {ref}
                    /\ Size(hashes', ref) = Size(hashes, ref) + 1
                    /\ list' = IF Size(hashes', ref) = 2 THEN Append(list, ref) ELSE list
           /\ adds' = adds => hashes' = hashes /\ list' = list

PromotionAtThreshold == [](PromotionState) /\ [][PromotionStep]_vars

PromotionWitness ==
    /\ BaselineId \notin mids
    /\ pc = "done"
    /\ \E ref \in Refs(hashes) : Size(hashes, ref) = 3
    /\ \E ref \in Refs(hashes) : Size(hashes, ref) = 1
    /\ Len(nonsingleton_equivalence_classes) >= 2

(***************************************************************************)
(* The comparator's claims.  They are stated for the classes of a file as  *)
(* its lines give them.                                                    *)
(***************************************************************************)
ClassesOf(equivs) == {Range(equivs[n]) : n \in 1..Len(equivs)}

\* no id is on two lines
IsPartition(equivs) ==
    \A a, b \in 1..Len(equivs) : a # b => Range(equivs[a]) \cap Range(equivs[b]) = {}

\* the classes of the other file that hold a member of C
Corresponding(C, other) == {D \in ClassesOf(other) : D \cap C # {}}

HasMutant(C) == C \ {"0"} # {}

Reported(out, C) == \E n \in 1..Len(out) : out[n].members = C

SubsetRule(primary, other, out) ==
    \A C \in ClassesOf(primary) :
        HasMutant(C) /\ Cardinality(Corresponding(C, other)) = 1 =>
            LET D == CHOOSE E \in Corresponding(C, other) : TRUE
            IN Reported(out, C) <=> ~(C \subseteq D)

StructuralRule(primary, other, out) ==
    /\ \A C \in ClassesOf(primary) :
          HasMutant(C) /\ Cardinality(Corresponding(C, other)) # 1 =>
              \E n \in 1..Len(out) : out[n].kind = "structural" /\ out[n].members = C
    /\ \A n \in 1..Len(out) :
          out[n].kind = "structural" =>
              /\ out[n].members \in ClassesOf(primary)
              /\ Cardinality(Corresponding(out[n].members, other)) # 1

BothPartitions == IsPartition(equivs1) /\ IsPartition(equivs2)

(***************************************************************************)
(* C1.  In each of the two passes a primary class with a member other than *)
(* "0" whose members map to exactly one class D of the other file is       *)
(* reported if and only if it is not a subset of D.  Stated for two files  *)
(* in which no id is on two lines, where the class of an id is one class.  *)
(***************************************************************************)
SubsetRuleInBothPasses ==
    cpc = "done" /\ BothPartitions =>
        /\ SubsetRule(equivs1, equivs2, out1)
        /\ SubsetRule(equivs2, equivs1, out2)

\* the first pass alone
SubsetRuleInPass1 ==
    cpc # "file1" /\ BothPartitions => SubsetRule(equivs1, equivs2, out1)

(***************************************************************************)
(* C2.  In each of the two passes a primary class with a member other than *)
(* "0" whose members map to no class, or to two or more classes, of the    *)
(* other file is reported as a structural disagreement, and the members    *)
(* the report shows are those of the primary class.  Stated for two files  *)
(* in which no id is on two lines.                                         *)
(***************************************************************************)
StructuralRuleInBothPasses ==
    cpc = "done" /\ BothPartitions =>
        /\ StructuralRule(equivs1, equivs2, out1)
        /\ StructuralRule(equivs2, equivs1, out2)

\* the first pass alone
StructuralRuleInPass1 ==
    cpc # "file1" /\ BothPartitions => StructuralRule(equivs1, equivs2, out1)

(***************************************************************************)
(* C3.  Reflexivity: when the two files hold the same list of classes      *)
(* neither pass reports a class, whatever the order in which the members   *)
(* of a class are iterated.  Stated for lists the classifier can write:    *)
(* every line has two members or more, and an id may be on several lines.  *)
(***************************************************************************)
ClassifierWritable(equivs) == \A n \in 1..Len(equivs) : Len(equivs[n]) >= 2

Reflexivity ==
    cpc = "done" /\ equivs1 = equivs2 /\ ClassifierWritable(equivs1) =>
        out1 = <<>> /\ out2 = <<>>

\* the same, for a file in which no id is on two lines
ReflexivityOfPartitions ==
    cpc = "done" /\ equivs1 = equivs2 /\ IsPartition(equivs1) =>
        out1 = <<>> /\ out2 = <<>>

====
